---- MODULE Spec2Model ----
(***************************************************************************)
(* State-machine model of casadi_mpc_template.hpp: the Problem class       *)
(* (bound setters, constraint registry), the MPC constructor (assembly of  *)
(* the decision vector, the constraint vector and their bound vectors)     *)
(* and MPC::solve (initial-state bounds, backend call, warm-start cache).  *)
(*                                                                         *)
(* Vectors (std::vector, Eigen::VectorXd, casadi::DM) are functions over   *)
(* 0..n-1, so that every index of the model is the index of the source.    *)
(***************************************************************************)
EXTENDS Integers, Sequences, FiniteSets, TLC

\* ---------------------------------------------------------------- bounds
MaxN == 2          \* horizon_ ranges over 0..MaxN
MaxDim == 2        \* nx_ ranges over 1..MaxDim, and nu_ = MaxDim + 1 - nx_
MaxCalls == 2      \* calls of a setter, of add_constraint and of solve per run

\* std::numeric_limits<double>::infinity()
inf == 1000

VARIABLES
    nx_, nu_, horizon_,          \* Problem: const size_t members
    u_bounds_, x_bounds_,        \* Problem: std::vector<LUbound>
    equality_constrinats_,       \* Problem: registered equality constraints (rows of each)
    inequality_constrinats_,     \* Problem: registered inequality constraints (rows of each)
    phase,                       \* "problem" | "assembled" | "crashed"
    w, g,                        \* MPC ctor: layout of vertcat(w), vertcat(g)
    lbw_, ubw_, lbg_, ubg_,      \* MPC: bound vectors
    w0_, lam_x0_, lam_g0_,       \* MPC: warm-start cache
    current_state,               \* argument of the latest solve call
    arg, sol,                    \* what the backend received last, what it returned last
    opt_u,                       \* what the latest solve call returned
    ncalls, nsolves,             \* calls made on the Problem, and of solve (bounded by MaxCalls)
    thr                          \* callers of solve that run concurrently: position and locals

pvars == <<nx_, nu_, horizon_, u_bounds_, x_bounds_, equality_constrinats_,
           inequality_constrinats_>>
svars == <<w, g, lbw_, ubw_, lbg_, ubg_, w0_, lam_x0_, lam_g0_>>
vars == <<pvars, svars, phase, current_state, arg, sol, opt_u, ncalls, nsolves, thr>>

\* ---------------------------------------------------------------- vectors
Size(v) == Cardinality(DOMAIN v)
Empty == [i \in {} |-> 0]
Constant(n, c) == [i \in 0..(n - 1) |-> c]
push_back(v, e) == [i \in 0..Size(v) |-> IF i < Size(v) THEN v[i] ELSE e]

\* ---------------------------------------------------------------- inputs
\* Bound vectors of length n a caller hands to a setter.
UpperVec(n) == [l \in 0..(n - 1) |-> 10 + l]
LowerVec(n) == [l \in 0..(n - 1) |-> 0 - (10 + l)]
\* Lengths a caller may pass where the Problem declares dimension n: short or right.
Lens(n) == {n - 1, n}
\* start and end arguments of the setters, inside and outside the horizon.
Starts == -1..horizon_
Ends == -1..(horizon_ + 1)
\* Number of rows of the MX a registered constraint function returns.
ConDims == {1, 2}
\* The current_state vectors handed to solve.
X0Vec(b) == [l \in 0..(nx_ - 1) |-> 100 * b + l]
X0s == {X0Vec(1), X0Vec(2)}
\* Values a read outside a vector's storage may produce.
Garbage == {-7, 7}
\* Return statuses of the backend.
Statuses == {"Solve_Succeeded", "Infeasible_Problem_Detected"}
\* Concurrent callers of solve.
Threads == {1, 2}

NoArg == [x0 |-> Empty, lbx |-> Empty, ubx |-> Empty, lbg |-> Empty, ubg |-> Empty,
          lam_x0 |-> Empty, lam_g0 |-> Empty]
NoSol == [x |-> Empty, lam_x |-> Empty, lam_g |-> Empty, status |-> "none"]
Idle == [pc |-> "idle", x0 |-> Empty, l |-> 0, arg |-> NoArg, sol |-> NoSol,
         opt_u |-> Empty, alone |-> TRUE]

\* ---------------------------------------------------------------- Problem
DefaultBounds(n) == [first |-> Constant(n, 0 - inf), second |-> Constant(n, inf)]

\* Problem::Problem(dyn_type, nx, nu, horizon, dt); the MPC members are default-constructed.
Init ==
    /\ nx_ \in 1..MaxDim
    /\ nu_ = MaxDim + 1 - nx_
    /\ horizon_ \in 0..MaxN
    /\ u_bounds_ = Constant(horizon_, DefaultBounds(nu_))
    /\ x_bounds_ = Constant(horizon_, DefaultBounds(nx_))
    /\ equality_constrinats_ = Empty
    /\ inequality_constrinats_ = Empty
    /\ phase = "problem"
    /\ w = Empty /\ g = Empty
    /\ lbw_ = Empty /\ ubw_ = Empty /\ lbg_ = Empty /\ ubg_ = Empty
    /\ w0_ = Empty /\ lam_x0_ = Empty /\ lam_g0_ = Empty
    /\ current_state = Empty
    /\ arg = NoArg /\ sol = NoSol /\ opt_u = Empty
    /\ ncalls = 0 /\ nsolves = 0
    /\ thr = [t \in Threads |-> Idle]

\* index_range with a bare start read as "from start to the end of the horizon".
index_range_open(start, end) ==
    IF start = -1 /\ end = -1 THEN <<0, horizon_>>
    ELSE IF start # -1 /\ end = -1 THEN <<start, horizon_>>
    ELSE <<start, end>>

index_range(start, end) ==
    IF start = -1 /\ end = -1 THEN <<0, horizon_>>
    ELSE IF start # -1 /\ end = -1 THEN <<start, start + 1>>
    ELSE <<start, end>>

\* One assignment of the setters' loop bodies: field is "both", "first" or "second".
Assign(entry, field, lb, ub) ==
    CASE field = "both" -> [first |-> lb, second |-> ub]
      [] field = "first" -> [entry EXCEPT !.first = lb]
      [] field = "second" -> [entry EXCEPT !.second = ub]

\* for (int i = start; i < end; i++) bounds[i] = ...; an index outside the vector
\* is a write outside its storage: with stop it ends the loop there (the process
\* dies), without it the write lands outside the vector and the loop goes on.
RECURSIVE SetLoop(_, _, _, _, _, _, _)
SetLoop(bounds, i, end, field, lb, ub, stop) ==
    IF i >= end THEN bounds
    ELSE IF i \in DOMAIN bounds
         THEN SetLoop([bounds EXCEPT ![i] = Assign(bounds[i], field, lb, ub)],
                      i + 1, end, field, lb, ub, stop)
         ELSE IF stop THEN bounds
              ELSE SetLoop(bounds, i + 1, end, field, lb, ub, stop)

\* Whether the loop over the range r writes outside the vector.
OutOfRange(bounds, r) == \E i \in r[1]..(r[2] - 1) : i \notin DOMAIN bounds

\* The body shared by the six setters.
SetBounds(bounds, field, lb, ub, start, end, crash) ==
    SetLoop(bounds, index_range(start, end)[1], index_range(start, end)[2], field, lb, ub, crash)

\* Guard and frame shared by the setters.  crash is the outcome of a write outside
\* the vector that kills the process; only such a write can have it.
CanCall == phase # "crashed" /\ ncalls + nsolves < MaxCalls
Called(bounds, start, end, crash) ==
    /\ crash => OutOfRange(bounds, index_range(start, end))
    /\ phase' = IF crash THEN "crashed" ELSE phase
    /\ ncalls' = ncalls + 1
    /\ UNCHANGED <<nx_, nu_, horizon_, equality_constrinats_, inequality_constrinats_,
                   svars, current_state, arg, sol, opt_u, nsolves, thr>>

set_input_bound(lb, ub, start, end, crash) ==
    /\ CanCall
    /\ UNCHANGED x_bounds_
    /\ u_bounds_' = SetBounds(u_bounds_, "both", lb, ub, start, end, crash)
    /\ Called(u_bounds_, start, end, crash)

set_input_lower_bound(lb, start, end, crash) ==
    /\ CanCall
    /\ UNCHANGED x_bounds_
    /\ u_bounds_' = SetBounds(u_bounds_, "first", lb, lb, start, end, crash)
    /\ Called(u_bounds_, start, end, crash)

set_input_upper_bound(ub, start, end, crash) ==
    /\ CanCall
    /\ UNCHANGED x_bounds_
    /\ u_bounds_' = SetBounds(u_bounds_, "second", ub, ub, start, end, crash)
    /\ Called(u_bounds_, start, end, crash)

set_state_bound(lb, ub, start, end, crash) ==
    /\ CanCall
    /\ UNCHANGED u_bounds_
    /\ x_bounds_' = SetBounds(x_bounds_, "both", lb, ub, start, end, crash)
    /\ Called(x_bounds_, start, end, crash)

set_state_lower_bound(lb, start, end, crash) ==
    /\ CanCall
    /\ UNCHANGED u_bounds_
    /\ x_bounds_' = SetBounds(x_bounds_, "first", lb, lb, start, end, crash)
    /\ Called(x_bounds_, start, end, crash)

set_state_upper_bound(ub, start, end, crash) ==
    /\ CanCall
    /\ UNCHANGED u_bounds_
    /\ x_bounds_' = SetBounds(x_bounds_, "second", ub, ub, start, end, crash)
    /\ Called(x_bounds_, start, end, crash)

\* A constraint function is modelled by the number of rows of the MX it returns.
add_constraint(type, constrinat) ==
    /\ CanCall
    /\ IF type = "Equality"
       THEN /\ equality_constrinats_' = push_back(equality_constrinats_, constrinat)
            /\ UNCHANGED inequality_constrinats_
       ELSE /\ inequality_constrinats_' = push_back(inequality_constrinats_, constrinat)
            /\ UNCHANGED equality_constrinats_
    /\ ncalls' = ncalls + 1
    /\ UNCHANGED <<nx_, nu_, horizon_, u_bounds_, x_bounds_, phase, svars, current_state,
                   arg, sol, opt_u, nsolves, thr>>

\* ---------------------------------------------------------------- MPC constructor
\* v extended by the entries t[0], ..., t[n-1]: a for-loop of push_back.
PushEach(v, t) ==
    LET s == Size(v)
    IN  [k \in 0..(s + Size(t) - 1) |-> IF k < s THEN v[k] ELSE t[k - s]]

\* bounds[k] and vec[l] as the constructor reads them: outside the storage the read
\* yields the garbage value gv.
NoBound == [first |-> Empty, second |-> Empty]
BoundAt(bounds, k) == IF k \in DOMAIN bounds THEN bounds[k] ELSE NoBound
At(vec, l, gv) == IF l \in DOMAIN vec THEN vec[l] ELSE gv

\* Whether the constructor reads outside a bound vector or outside x_bounds.
CtorReadsOutside ==
    \/ horizon_ = 0
    \/ \E k \in DOMAIN x_bounds_ : Size(x_bounds_[k].first) < nx_ \/ Size(x_bounds_[k].second) < nx_
    \/ \E k \in DOMAIN u_bounds_ : Size(u_bounds_[k].first) < nu_ \/ Size(u_bounds_[k].second) < nu_

\* The naive mapping: entry i bounds state i.
StateBoundIndex_same(i) == i

\* The x_bounds entry the stage loop reads for Xs[i], i # 0.
StateBoundIndex(i) == i - 1

\* ConLoop with one bound pair pushed per constraint instead of one per row.
RECURSIVE ConLoop_once(_, _, _, _, _, _)
ConLoop_once(acc, cons, c, kind, i, lo) ==
    IF c >= Size(cons) THEN acc
    ELSE ConLoop_once([acc EXCEPT
                         !.g = PushEach(@, [l \in 0..(cons[c] - 1) |-> [kind |-> kind, i |-> i, c |-> c, l |-> l]]),
                         !.lbg = push_back(@, lo),
                         !.ubg = push_back(@, 0)],
                      cons, c + 1, kind, i, lo)

\* g, lbg_, ubg_ extended by the rows of the constraints cons[c], cons[c+1], ... of stage i.
RECURSIVE ConLoop(_, _, _, _, _, _)
ConLoop(acc, cons, c, kind, i, lo) ==
    IF c >= Size(cons) THEN acc
    ELSE ConLoop([acc EXCEPT
                    !.g = PushEach(@, [l \in 0..(cons[c] - 1) |-> [kind |-> kind, i |-> i, c |-> c, l |-> l]]),
                    !.lbg = PushEach(@, [l \in 0..(cons[c] - 1) |-> lo]),
                    !.ubg = PushEach(@, [l \in 0..(cons[c] - 1) |-> 0])],
                 cons, c + 1, kind, i, lo)

\* The body of the stage loop of the constructor, for stage i.
Stage(acc, i, gv) ==
    LET xb == BoundAt(x_bounds_, StateBoundIndex(i))
        ub == BoundAt(u_bounds_, i)
        a1 == [acc EXCEPT
                 !.w = PushEach(@, [l \in 0..(nx_ - 1) |-> [blk |-> "X", i |-> i, l |-> l]]),
                 !.lbw = IF i # 0
                         THEN PushEach(@, [l \in 0..(nx_ - 1) |-> At(xb.first, l, gv)])
                         ELSE PushEach(@, [l \in 0..(nx_ - 1) |-> 0]),
                 !.ubw = IF i # 0
                         THEN PushEach(@, [l \in 0..(nx_ - 1) |-> At(xb.second, l, gv)])
                         ELSE PushEach(@, [l \in 0..(nx_ - 1) |-> 0])]
        a2 == [a1 EXCEPT
                 !.w = PushEach(@, [l \in 0..(nu_ - 1) |-> [blk |-> "U", i |-> i, l |-> l]]),
                 !.lbw = PushEach(@, [l \in 0..(nu_ - 1) |-> At(ub.first, l, gv)]),
                 !.ubw = PushEach(@, [l \in 0..(nu_ - 1) |-> At(ub.second, l, gv)])]
        a3 == [a2 EXCEPT
                 !.g = PushEach(@, [l \in 0..(nx_ - 1) |-> [kind |-> "defect", i |-> i, c |-> 0, l |-> l]]),
                 !.lbg = PushEach(@, [l \in 0..(nx_ - 1) |-> 0]),
                 !.ubg = PushEach(@, [l \in 0..(nx_ - 1) |-> 0])]
        a4 == ConLoop(a3, equality_constrinats_, 0, "eq", i, 0)
    IN  ConLoop(a4, inequality_constrinats_, 0, "ineq", i, 0 - inf)

RECURSIVE StageLoop(_, _, _)
StageLoop(acc, i, gv) ==
    IF i >= horizon_ THEN acc ELSE StageLoop(Stage(acc, i, gv), i + 1, gv)

\* Terminal without the bounds of Xs[N].
Terminal_unbounded(acc, gv) ==
    [acc EXCEPT !.w = PushEach(@, [l \in 0..(nx_ - 1) |-> [blk |-> "X", i |-> horizon_, l |-> l]])]

\* w.push_back(Xs[N]) and the terminal bounds x_bounds[N - 1].
Terminal(acc, gv) ==
    LET xb == BoundAt(x_bounds_, horizon_ - 1)
    IN  [acc EXCEPT
           !.w = PushEach(@, [l \in 0..(nx_ - 1) |-> [blk |-> "X", i |-> horizon_, l |-> l]]),
           !.lbw = PushEach(@, [l \in 0..(nx_ - 1) |-> At(xb.first, l, gv)]),
           !.ubw = PushEach(@, [l \in 0..(nx_ - 1) |-> At(xb.second, l, gv)])]

Assemble(gv) ==
    Terminal(StageLoop([w |-> Empty, lbw |-> Empty, ubw |-> Empty,
                        g |-> Empty, lbg |-> Empty, ubg |-> Empty], 0, gv), gv)

\* MPC::MPC(prob, ...).  A read outside a vector either kills the process (crash)
\* or yields gv.
MPC(gv, crash) ==
    /\ phase = "problem"
    /\ crash => CtorReadsOutside
    /\ IF crash
       THEN /\ phase' = "crashed"
            /\ UNCHANGED svars
       ELSE LET a == Assemble(gv)
            IN  /\ phase' = "assembled"
                /\ w' = a.w /\ g' = a.g
                /\ lbw_' = a.lbw /\ ubw_' = a.ubw
                /\ lbg_' = a.lbg /\ ubg_' = a.ubg
                /\ UNCHANGED <<w0_, lam_x0_, lam_g0_>>
    /\ UNCHANGED <<pvars, current_state, arg, sol, opt_u, ncalls, nsolves, thr>>

\* ---------------------------------------------------------------- MPC::solve
\* WriteAt with the first component of x0 written to every entry.
WriteAt_first(bw, xv, l) == [bw EXCEPT ![l] = xv[0]]

\* lbw_[l] = x0[l] (and ubw_[l] = x0[l])
WriteAt(bw, xv, l) == [bw EXCEPT ![l] = xv[l]]

\* for (auto l = 0; l < nx; l++) ...
RECURSIVE WriteX0(_, _, _)
WriteX0(bw, xv, l) ==
    IF l >= nx_ THEN bw ELSE WriteX0(WriteAt(bw, xv, l), xv, l + 1)

\* MakeArg with the lower bounds passed as the upper bounds too.
MakeArg_lower(lbw, ubw) ==
    [x0 |-> w0_, lbx |-> lbw, ubx |-> lbw, lbg |-> lbg_, ubg |-> lbg_,
     lam_x0 |-> lam_x0_, lam_g0 |-> lam_g0_]

\* DMDict arg of solve, built from the members as they are when it is built.
MakeArg(lbw, ubw) ==
    [x0 |-> w0_, lbx |-> lbw, ubx |-> ubw, lbg |-> lbg_, ubg |-> ubg_,
     lam_x0 |-> lam_x0_, lam_g0 |-> lam_g0_]

\* solver_(arg): the numerical backend.  Its solution is a function of the bounds it
\* receives (here of the X_0 bound, the current state); stat is its return status.
Backend(a, stat) ==
    [x |-> [k \in DOMAIN a.lbx |-> 10 * a.lbx[0] + k],
     lam_x |-> [k \in DOMAIN a.lbx |-> 20 * a.lbx[0] + k],
     lam_g |-> [k \in DOMAIN a.lbg |-> 30 * a.lbx[0] + k],
     status |-> stat]

\* Cache with the primal solution shifted by one stage, the last stage repeated.
Cache_shifted(s) ==
    [w0 |-> [k \in DOMAIN s.x |->
               IF k + nx_ + nu_ \in DOMAIN s.x THEN s.x[k + nx_ + nu_] ELSE s.x[k]],
     lam_x0 |-> s.lam_x, lam_g0 |-> s.lam_g]

\* What solve caches of the backend's return.
Cache(s) == [w0 |-> s.x, lam_x0 |-> s.lam_x, lam_g0 |-> s.lam_g]

\* std::copy(w0_.ptr() + nx, w0_.ptr() + nx + nu, opt_u.data())
CopyU(w0, gv) == [l \in 0..(nu_ - 1) |-> At(w0, nx_ + l, gv)]
CopyReadsOutside(w0) == nx_ + nu_ > Size(w0)

\* One call of solve that no other call overlaps.
solve(xv, stat, gv, crash) ==
    /\ phase = "assembled"
    /\ ncalls + nsolves < MaxCalls
    /\ \A t \in Threads : thr[t].pc = "idle"
    /\ LET lbw == WriteX0(lbw_, xv, 0)
           ubw == WriteX0(ubw_, xv, 0)
           a == MakeArg(lbw, ubw)
           s == Backend(a, stat)
       IN  /\ crash => CopyReadsOutside(Cache(s).w0)
           /\ current_state' = xv
           /\ lbw_' = lbw /\ ubw_' = ubw
           /\ arg' = a
           /\ sol' = s
           /\ w0_' = Cache(s).w0
           /\ lam_x0_' = Cache(s).lam_x0
           /\ lam_g0_' = Cache(s).lam_g0
           /\ IF crash
              THEN phase' = "crashed" /\ UNCHANGED opt_u
              ELSE phase' = phase /\ opt_u' = CopyU(Cache(s).w0, gv)
    /\ nsolves' = nsolves + 1
    /\ UNCHANGED <<pvars, w, g, lbg_, ubg_, ncalls, thr>>

\* ---------------------------------------------------------------- overlapping solve calls
\* solve has no lock: two callers run its statements in any interleaving.  A step
\* of thread t: t's position and locals become rec, and every other thread that is
\* inside solve has been overlapped (alone is the record of that, not program state).
Inside(t) == thr[t].pc \notin {"idle", "done"}
Step(t, rec) ==
    thr' = [u \in Threads |->
              IF u = t THEN rec
              ELSE IF Inside(u) THEN [thr[u] EXCEPT !.alone = FALSE] ELSE thr[u]]

Begin(t, xv) ==
    /\ phase = "assembled"
    /\ thr[t].pc = "idle"
    /\ Step(t, [thr[t] EXCEPT !.pc = "lbw", !.x0 = xv, !.l = 0,
                              !.alone = \A u \in Threads \ {t} : ~Inside(u)])
    /\ UNCHANGED <<pvars, svars, phase, current_state, arg, sol, opt_u, ncalls, nsolves>>

WriteLb(t) ==
    /\ phase = "assembled"
    /\ thr[t].pc = "lbw"
    /\ lbw_' = WriteAt(lbw_, thr[t].x0, thr[t].l)
    /\ Step(t, [thr[t] EXCEPT !.pc = "ubw"])
    /\ UNCHANGED <<pvars, w, g, ubw_, lbg_, ubg_, w0_, lam_x0_, lam_g0_, phase,
                   current_state, arg, sol, opt_u, ncalls, nsolves>>

WriteUb(t) ==
    /\ phase = "assembled"
    /\ thr[t].pc = "ubw"
    /\ ubw_' = WriteAt(ubw_, thr[t].x0, thr[t].l)
    /\ Step(t, [thr[t] EXCEPT !.l = @ + 1,
                              !.pc = IF thr[t].l + 1 < nx_ THEN "lbw" ELSE "arg"])
    /\ UNCHANGED <<pvars, w, g, lbw_, lbg_, ubg_, w0_, lam_x0_, lam_g0_, phase,
                   current_state, arg, sol, opt_u, ncalls, nsolves>>

BuildArg(t) ==
    /\ phase = "assembled"
    /\ thr[t].pc = "arg"
    /\ Step(t, [thr[t] EXCEPT !.pc = "call", !.arg = MakeArg(lbw_, ubw_)])
    /\ UNCHANGED <<pvars, svars, phase, current_state, arg, sol, opt_u, ncalls, nsolves>>

Invoke(t, stat) ==
    /\ phase = "assembled"
    /\ thr[t].pc = "call"
    /\ arg' = thr[t].arg
    /\ sol' = Backend(thr[t].arg, stat)
    /\ Step(t, [thr[t] EXCEPT !.pc = "w0", !.sol = Backend(thr[t].arg, stat)])
    /\ UNCHANGED <<pvars, svars, phase, current_state, opt_u, ncalls, nsolves>>

StoreW0(t) ==
    /\ phase = "assembled"
    /\ thr[t].pc = "w0"
    /\ w0_' = Cache(thr[t].sol).w0
    /\ Step(t, [thr[t] EXCEPT !.pc = "lam_x0"])
    /\ UNCHANGED <<pvars, w, g, lbw_, ubw_, lbg_, ubg_, lam_x0_, lam_g0_, phase,
                   current_state, arg, sol, opt_u, ncalls, nsolves>>

StoreLamX(t) ==
    /\ phase = "assembled"
    /\ thr[t].pc = "lam_x0"
    /\ lam_x0_' = Cache(thr[t].sol).lam_x0
    /\ Step(t, [thr[t] EXCEPT !.pc = "lam_g0"])
    /\ UNCHANGED <<pvars, w, g, lbw_, ubw_, lbg_, ubg_, w0_, lam_g0_, phase,
                   current_state, arg, sol, opt_u, ncalls, nsolves>>

StoreLamG(t) ==
    /\ phase = "assembled"
    /\ thr[t].pc = "lam_g0"
    /\ lam_g0_' = Cache(thr[t].sol).lam_g0
    /\ Step(t, [thr[t] EXCEPT !.pc = "copy"])
    /\ UNCHANGED <<pvars, w, g, lbw_, ubw_, lbg_, ubg_, w0_, lam_x0_, phase,
                   current_state, arg, sol, opt_u, ncalls, nsolves>>

Return(t, gv, crash) ==
    /\ phase = "assembled"
    /\ thr[t].pc = "copy"
    /\ crash => CopyReadsOutside(w0_)
    /\ phase' = IF crash THEN "crashed" ELSE phase
    /\ Step(t, [thr[t] EXCEPT !.pc = "done",
                              !.opt_u = IF crash THEN Empty ELSE CopyU(w0_, gv)])
    /\ UNCHANGED <<pvars, svars, current_state, arg, sol, opt_u, ncalls, nsolves>>

\* ---------------------------------------------------------------- specifications

\* A call of a setter that takes both bound vectors.
SetBoth(start, end, crash, short) ==
    \/ \E n \in (IF short THEN Lens(nu_) ELSE {nu_}) :
         set_input_bound(LowerVec(n), UpperVec(n), start, end, crash)
    \/ \E n \in (IF short THEN Lens(nx_) ELSE {nx_}) :
         set_state_bound(LowerVec(n), UpperVec(n), start, end, crash)

\* A call of a setter that takes one bound vector.
SetOne(start, end, crash, short) ==
    \/ \E n \in (IF short THEN Lens(nu_) ELSE {nu_}) :
         \/ set_input_lower_bound(LowerVec(n), start, end, crash)
         \/ set_input_upper_bound(UpperVec(n), start, end, crash)
    \/ \E n \in (IF short THEN Lens(nx_) ELSE {nx_}) :
         \/ set_state_lower_bound(LowerVec(n), start, end, crash)
         \/ set_state_upper_bound(UpperVec(n), start, end, crash)

\* A call whose resolved range lies inside the horizon.
WellFormed(start, end) ==
    LET r == index_range(start, end)
    IN  0 <= r[1] /\ r[1] <= r[2] /\ r[2] <= horizon_

\* Any setter call: the resolved range inside the horizon or not, the vectors of
\* the declared length or short.
Setter ==
    \E start \in Starts, end \in Ends, crash \in BOOLEAN :
        SetBoth(start, end, crash, TRUE) \/ SetOne(start, end, crash, TRUE)

\* The setter calls a correct caller makes: every form of range inside the
\* horizon, vectors of the declared length.
SetRange ==
    \E start \in Starts, end \in Ends :
        /\ WellFormed(start, end)
        /\ SetBoth(start, end, FALSE, FALSE) \/ SetOne(start, end, FALSE, FALSE)

\* The setter calls of the life cycle, one stage each: every setter with vectors
\* of the declared length, and the two-sided setters with short vectors as well
\* (the constructor reads a short lower or upper vector the same way whichever
\* setter stored it; a range call stores what single-stage calls store, by C1).
Configure ==
    \E k \in 0..(horizon_ - 1) :
        SetBoth(k, -1, FALSE, TRUE) \/ SetOne(k, -1, FALSE, FALSE)

AddConstraint ==
    \E type \in {"Equality", "Inequality"}, d \in ConDims : add_constraint(type, d)

Construct ==
    \E crash \in BOOLEAN, gv \in (IF CtorReadsOutside THEN Garbage ELSE {0}) : MPC(gv, crash)

Solve ==
    \E xv \in X0s, stat \in Statuses, crash \in BOOLEAN :
        \E gv \in (IF CopyReadsOutside(lbw_) THEN Garbage ELSE {0}) :
            solve(xv, stat, gv, crash)

\* The Problem object alone, under every argument of its setters.
NextProblem == Setter \/ AddConstraint
SpecProblem == Init /\ [][NextProblem]_vars

\* The Problem object alone, under the setter calls of a correct caller.
NextSetters == SetRange
SpecSetters == Init /\ [][NextSetters]_vars

\* The life cycle of one solver: the Problem is configured, the MPC is constructed
\* from it, solve is called, and the Problem may be changed at any time.
Next == Configure \/ AddConstraint \/ Construct \/ Solve
Spec == Init /\ [][Next]_vars

\* Two threads call solve once each on one solver, with different current_state
\* values and nothing that serializes them.
ThreadStep(t) ==
    \/ Begin(t, X0Vec(t))
    \/ WriteLb(t)
    \/ WriteUb(t)
    \/ BuildArg(t)
    \/ \E stat \in Statuses : Invoke(t, stat)
    \/ StoreW0(t)
    \/ StoreLamX(t)
    \/ StoreLamG(t)
    \/ \E crash \in BOOLEAN, gv \in (IF CopyReadsOutside(w0_) THEN Garbage ELSE {0}) :
         Return(t, gv, crash)
NextConc == Construct \/ \E t \in Threads : ThreadStep(t)
SpecConc == Init /\ [][NextConc]_vars

\* ---------------------------------------------------------------- C1
\* The stages a call (start, end) addresses: all of them, the one stage start, or
\* the stages start, ..., end - 1.
ResolvedStages(start, end) ==
    IF start = -1 /\ end = -1 THEN 0..(horizon_ - 1)
    ELSE IF end = -1 THEN {start}
    ELSE start..(end - 1)
InHorizon(start, end) == ResolvedStages(start, end) \subseteq 0..(horizon_ - 1)

\* bounds with the lower (lo) and/or upper (up) vector of exactly the stages S replaced.
Replaced(bounds, S, lo, up, lb, ub) ==
    [k \in DOMAIN bounds |->
       IF k \in S
       THEN [first |-> IF lo THEN lb ELSE bounds[k].first,
             second |-> IF up THEN ub ELSE bounds[k].second]
       ELSE bounds[k]]

\* C1: a setter call whose stages lie in the horizon replaces the (lower, upper,
\* or both) vectors of exactly the stages it addresses - all N with no start/end,
\* only stage k with start = k, exactly [k1, k2) with start = k1 and end = k2 -
\* and leaves every other entry, and the other bound list, as they were; this
\* holds for all six setters, whatever calls came before.
C1_RangeResolution ==
    [][\A start \in Starts, end \in Ends :
         InHorizon(start, end) =>
           LET S == ResolvedStages(start, end)
               lbx == LowerVec(nx_)
               ubx == UpperVec(nx_)
               lbu == LowerVec(nu_)
               ubu == UpperVec(nu_)
           IN  /\ set_state_bound(lbx, ubx, start, end, FALSE)
                    => /\ x_bounds_' = Replaced(x_bounds_, S, TRUE, TRUE, lbx, ubx)
                       /\ u_bounds_' = u_bounds_
               /\ set_state_lower_bound(lbx, start, end, FALSE)
                    => /\ x_bounds_' = Replaced(x_bounds_, S, TRUE, FALSE, lbx, ubx)
                       /\ u_bounds_' = u_bounds_
               /\ set_state_upper_bound(ubx, start, end, FALSE)
                    => /\ x_bounds_' = Replaced(x_bounds_, S, FALSE, TRUE, lbx, ubx)
                       /\ u_bounds_' = u_bounds_
               /\ set_input_bound(lbu, ubu, start, end, FALSE)
                    => /\ u_bounds_' = Replaced(u_bounds_, S, TRUE, TRUE, lbu, ubu)
                       /\ x_bounds_' = x_bounds_
               /\ set_input_lower_bound(lbu, start, end, FALSE)
                    => /\ u_bounds_' = Replaced(u_bounds_, S, TRUE, FALSE, lbu, ubu)
                       /\ x_bounds_' = x_bounds_
               /\ set_input_upper_bound(ubu, start, end, FALSE)
                    => /\ u_bounds_' = Replaced(u_bounds_, S, FALSE, TRUE, lbu, ubu)
                       /\ x_bounds_' = x_bounds_
      ]_vars

\* Two setter calls have run on a horizon of two or more stages: one stage of
\* x_bounds holds a set pair while another still holds the default, and one stage
\* of u_bounds has only its lower vector replaced.
C1_Witness ==
    /\ horizon_ >= 2
    /\ ncalls = 2
    /\ phase = "problem"
    /\ \E k \in DOMAIN x_bounds_ :
         /\ x_bounds_[k] = [first |-> LowerVec(nx_), second |-> UpperVec(nx_)]
         /\ \A j \in DOMAIN x_bounds_ \ {k} : x_bounds_[j] = DefaultBounds(nx_)
    /\ \E k \in DOMAIN u_bounds_ :
         /\ u_bounds_[k] = [first |-> LowerVec(nu_), second |-> Constant(nu_, inf)]
         /\ \A j \in DOMAIN u_bounds_ \ {k} : u_bounds_[j] = DefaultBounds(nu_)

\* ---------------------------------------------------------------- C4
\* C4: a setter call that addresses a stage outside [0, N), or passes a vector
\* whose length is not the declared nx / nu, is rejected: it leaves the stored
\* bounds as they were.
C4_RejectsIllFormed ==
    [][\A start \in Starts, end \in Ends, crash \in BOOLEAN :
         /\ \A n \in Lens(nx_) :
              (~InHorizon(start, end) \/ n # nx_) =>
                \A lb \in {LowerVec(n)}, ub \in {UpperVec(n)} :
                  (\/ set_state_bound(lb, ub, start, end, crash)
                   \/ set_state_lower_bound(lb, start, end, crash)
                   \/ set_state_upper_bound(ub, start, end, crash))
                  => UNCHANGED <<x_bounds_, u_bounds_>>
         /\ \A n \in Lens(nu_) :
              (~InHorizon(start, end) \/ n # nu_) =>
                \A lb \in {LowerVec(n)}, ub \in {UpperVec(n)} :
                  (\/ set_input_bound(lb, ub, start, end, crash)
                   \/ set_input_lower_bound(lb, start, end, crash)
                   \/ set_input_upper_bound(ub, start, end, crash))
                  => UNCHANGED <<x_bounds_, u_bounds_>>
      ]_vars

\* ---------------------------------------------------------------- C2
\* C2: once solve has been called, the first nx entries of lbw_ and of ubw_ equal
\* the current_state of the latest call, component by component, and so do the
\* first nx entries of the lbx and ubx the backend received in that call.
C2_InitialStateEnforced ==
    nsolves > 0 =>
      \A l \in 0..(nx_ - 1) :
        /\ lbw_[l] = current_state[l]
        /\ ubw_[l] = current_state[l]
        /\ arg.lbx[l] = current_state[l]
        /\ arg.ubx[l] = current_state[l]

\* A second solve call, with a current_state of two components or more that
\* differs from the one of the first call (whose solution is the warm start it passed).
C2_Witness ==
    /\ phase = "assembled"
    /\ nsolves = 2
    /\ nx_ >= 2
    /\ horizon_ >= 1
    /\ current_state = X0Vec(2)
    /\ arg.x0 = Backend([lbx |-> WriteX0(lbw_, X0Vec(1), 0), lbg |-> lbg_], "Solve_Succeeded").x

\* ---------------------------------------------------------------- C3
\* C3: the initial guess and both multiplier vectors the backend receives in a
\* solve call are, unshifted and unmodified, what the backend returned in the call
\* before (empty in the first call), and a step that is no solve call leaves the
\* three caches as they were.
C3_WarmStart ==
    [][/\ nsolves' = nsolves + 1 =>
            /\ arg'.x0 = (IF nsolves = 0 THEN Empty ELSE sol.x)
            /\ arg'.lam_x0 = (IF nsolves = 0 THEN Empty ELSE sol.lam_x)
            /\ arg'.lam_g0 = (IF nsolves = 0 THEN Empty ELSE sol.lam_g)
       /\ nsolves' = nsolves => UNCHANGED <<w0_, lam_x0_, lam_g0_>>
      ]_vars

\* A second solve call has passed the first call's return, which differs from
\* its own, on a horizon of two stages or more.
C3_Witness ==
    /\ nsolves = 2
    /\ horizon_ >= 2
    /\ arg.x0 # Empty /\ arg.lam_x0 # Empty /\ arg.lam_g0 # Empty
    /\ arg.x0 # sol.x
    /\ w0_ = sol.x

\* ---------------------------------------------------------------- C5
\* A vector of nu numbers: what solve returns for a control action.
IsControlVector(v) == DOMAIN v = 0..(nu_ - 1) /\ \A l \in DOMAIN v : v[l] \in Int

\* C5: when the backend reports a status other than success, what solve returns
\* is not an ordinary control vector.
C5_FailureDistinguishable ==
    (phase = "assembled" /\ nsolves > 0 /\ sol.status # "Solve_Succeeded")
      => ~IsControlVector(opt_u)

\* ---------------------------------------------------------------- C6
\* Offsets of the blocks X_i and U_i in the decision vector.
Xoff(i) == i * (nx_ + nu_)
Uoff(i) == i * (nx_ + nu_) + nx_
Constructed == phase = "problem" /\ phase' = "assembled"

\* C6: the constructor places stored entry x_bounds[k], k in 0..N-1, on state
\* block X_{k+1} (the terminal block X_N gets x_bounds[N-1]), the 0/0 placeholder
\* on X_0, and u_bounds[i] on control block U_i; the blocks X_0..X_N and
\* U_0..U_{N-1} are all there is, so every stored entry is used exactly once.
\* (Components a stored vector does not have are not compared.)
C6_StateBoundOffset ==
    [][(Constructed /\ horizon_ >= 1) =>
         /\ Size(lbw_') = horizon_ * (nx_ + nu_) + nx_
         /\ Size(ubw_') = horizon_ * (nx_ + nu_) + nx_
         /\ \A l \in 0..(nx_ - 1) : lbw_'[l] = 0 /\ ubw_'[l] = 0
         /\ \A k \in 0..(horizon_ - 1) : \A l \in 0..(nx_ - 1) :
              /\ l \in DOMAIN x_bounds_[k].first
                   => lbw_'[Xoff(k + 1) + l] = x_bounds_[k].first[l]
              /\ l \in DOMAIN x_bounds_[k].second
                   => ubw_'[Xoff(k + 1) + l] = x_bounds_[k].second[l]
         /\ \A i \in 0..(horizon_ - 1) : \A l \in 0..(nu_ - 1) :
              /\ l \in DOMAIN u_bounds_[i].first
                   => lbw_'[Uoff(i) + l] = u_bounds_[i].first[l]
              /\ l \in DOMAIN u_bounds_[i].second
                   => ubw_'[Uoff(i) + l] = u_bounds_[i].second[l]
      ]_vars

\* A solver constructed, on a horizon of two stages or more, from a Problem whose
\* x_bounds[0] was set and whose x_bounds[1] was not: X_1 carries the set pair,
\* X_2 the default.
C6_Witness ==
    /\ phase = "assembled"
    /\ horizon_ >= 2
    /\ x_bounds_[0] = [first |-> LowerVec(nx_), second |-> UpperVec(nx_)]
    /\ x_bounds_[1] = DefaultBounds(nx_)
    /\ lbw_[Xoff(1)] = LowerVec(nx_)[0] /\ ubw_[Xoff(1)] = UpperVec(nx_)[0]
    /\ lbw_[Xoff(2)] = 0 - inf /\ ubw_[Xoff(2)] = inf

\* ---------------------------------------------------------------- C7
RECURSIVE RowsBefore(_, _)
RowsBefore(cons, c) == IF c <= 0 THEN 0 ELSE RowsBefore(cons, c - 1) + cons[c - 1]
Rows(cons) == RowsBefore(cons, Size(cons))
\* The constraint and row that row r of the stacked constraints cons belongs to.
ConOf(cons, r) == CHOOSE c \in DOMAIN cons : RowsBefore(cons, c) <= r /\ r < RowsBefore(cons, c + 1)
\* Row k of the constraint vector: per stage nx defects, the equality constraints
\* in insertion order, the inequality constraints in insertion order.
RowAt(k) ==
    LET per == nx_ + Rows(equality_constrinats_) + Rows(inequality_constrinats_)
        i == k \div per
        r == k % per
        re == r - nx_
        ri == r - nx_ - Rows(equality_constrinats_)
    IN  IF r < nx_ THEN [kind |-> "defect", i |-> i, c |-> 0, l |-> r]
        ELSE IF re < Rows(equality_constrinats_)
             THEN LET c == ConOf(equality_constrinats_, re)
                  IN  [kind |-> "eq", i |-> i, c |-> c,
                       l |-> re - RowsBefore(equality_constrinats_, c)]
             ELSE LET c == ConOf(inequality_constrinats_, ri)
                  IN  [kind |-> "ineq", i |-> i, c |-> c,
                       l |-> ri - RowsBefore(inequality_constrinats_, c)]

\* C7: the constructor builds a constraint vector of N*nx rows plus N*d rows for
\* every registered constraint of d rows, per stage the nx defects, then the
\* equality constraints, then the inequality constraints, each in insertion
\* order; lbg_ and ubg_ have one entry per row, [0,0] for a defect or equality
\* row and [-inf,0] for an inequality row.
C7_ConstraintVector ==
    [][Constructed =>
         /\ Size(g') = horizon_ * (nx_ + Rows(equality_constrinats_) + Rows(inequality_constrinats_))
         /\ DOMAIN lbg_' = DOMAIN g' /\ DOMAIN ubg_' = DOMAIN g'
         /\ \A k \in DOMAIN g' :
              /\ g'[k] = RowAt(k)
              /\ ubg_'[k] = 0
              /\ lbg_'[k] = (IF g'[k].kind = "ineq" THEN 0 - inf ELSE 0)
      ]_vars

\* A solver constructed, on a horizon of two stages or more, from a Problem with
\* one equality constraint of two rows and one inequality constraint.
C7_Witness ==
    /\ phase = "assembled"
    /\ horizon_ >= 2
    /\ equality_constrinats_ = Constant(1, 2)
    /\ Size(inequality_constrinats_) = 1
    /\ Size(g) = horizon_ * (nx_ + 2 + inequality_constrinats_[0])
    /\ \E k \in DOMAIN g : g[k].kind = "ineq" /\ lbg_[k] = 0 - inf

\* ---------------------------------------------------------------- C8
\* Entry k of the decision vector: X_0, U_0, X_1, U_1, ..., X_{N-1}, U_{N-1}, X_N.
VarAt(k) ==
    LET i == k \div (nx_ + nu_)
        r == k % (nx_ + nu_)
    IN  IF r < nx_ THEN [blk |-> "X", i |-> i, l |-> r]
        ELSE [blk |-> "U", i |-> i, l |-> r - nx_]

\* C8: the assembled variable vector has N*(nx+nu)+nx entries in the order
\* X_0, U_0, ..., X_{N-1}, U_{N-1}, X_N, and lbw_ and ubw_ have that length, after
\* the construction and after every solve call.
C8_DecisionVector ==
    phase = "assembled" =>
      /\ Size(w) = horizon_ * (nx_ + nu_) + nx_
      /\ \A k \in DOMAIN w : w[k] = VarAt(k)
      /\ w[Size(w) - 1] = [blk |-> "X", i |-> horizon_, l |-> nx_ - 1]
      /\ DOMAIN lbw_ = DOMAIN w
      /\ DOMAIN ubw_ = DOMAIN w

\* A solver on a horizon of two stages or more, with two state components, after
\* two solve calls.
C8_Witness ==
    /\ phase = "assembled"
    /\ horizon_ >= 2
    /\ nx_ >= 2
    /\ nsolves = 2

\* ---------------------------------------------------------------- C10
\* C10: once the solver is constructed, no step changes the length of lbw_ or
\* ubw_, an entry of them at index >= nx, lbg_ or ubg_; a solve call changes,
\* besides the first nx entries of lbw_/ubw_ and the warm-start cache, nothing of
\* the solver or the Problem, and passes these bounds to the backend; a step that is
\* no solve call (a Problem setter, add_constraint) changes no solver member.
C10_BoundsFrozen ==
    [][phase = "assembled" =>
         /\ DOMAIN lbw_' = DOMAIN lbw_ /\ DOMAIN ubw_' = DOMAIN ubw_
         /\ \A k \in DOMAIN lbw_ : k >= nx_ => lbw_'[k] = lbw_[k] /\ ubw_'[k] = ubw_[k]
         /\ UNCHANGED <<w, g, lbg_, ubg_>>
         /\ nsolves' = nsolves => UNCHANGED <<svars, arg>>
         /\ nsolves' # nsolves =>
              /\ UNCHANGED pvars
              /\ DOMAIN arg'.lbx = DOMAIN lbw_ /\ DOMAIN arg'.ubx = DOMAIN ubw_
              /\ \A k \in DOMAIN lbw_ :
                   k >= nx_ => arg'.lbx[k] = lbw_[k] /\ arg'.ubx[k] = ubw_[k]
              /\ arg'.lbg = lbg_ /\ arg'.ubg = ubg_
      ]_vars

\* A solver whose Problem had x_bounds[0] set after the construction: X_1 still
\* carries the default in lbw_/ubw_ and in the bounds the backend received.
C10_Witness ==
    /\ phase = "assembled"
    /\ horizon_ >= 1
    /\ nsolves >= 1
    /\ x_bounds_[0] = [first |-> LowerVec(nx_), second |-> UpperVec(nx_)]
    /\ lbw_[Xoff(1)] = 0 - inf /\ ubw_[Xoff(1)] = inf
    /\ arg.lbx[Xoff(1)] = 0 - inf /\ arg.ubx[Xoff(1)] = inf

\* ---------------------------------------------------------------- C9
\* C9: a solve call that no other solve call has overlapped passes to the backend
\* X_0 bounds equal, lower and upper, to its own current_state, and a warm start
\* that is empty or is wholly what one finished call cached.
C9_SerializedSeesOwn ==
    \A t \in Threads :
      (thr[t].pc = "call" /\ thr[t].alone) =>
        /\ \A l \in 0..(nx_ - 1) :
             thr[t].arg.lbx[l] = thr[t].x0[l] /\ thr[t].arg.ubx[l] = thr[t].x0[l]
        /\ \/ thr[t].arg.x0 = Empty /\ thr[t].arg.lam_x0 = Empty /\ thr[t].arg.lam_g0 = Empty
           \/ \E u \in Threads \ {t} :
                /\ thr[u].pc = "done"
                /\ thr[t].arg.x0 = thr[u].sol.x
                /\ thr[t].arg.lam_x0 = thr[u].sol.lam_x
                /\ thr[t].arg.lam_g0 = thr[u].sol.lam_g

\* Two overlapping calls: a thread is about to invoke the backend with an X_0
\* lower bound that is the other thread's current_state and a warm start of which
\* the other call has written the primal part only.
C9_Witness ==
    \E t \in Threads :
      /\ thr[t].pc = "call"
      /\ \E l \in 0..(nx_ - 1) : thr[t].arg.lbx[l] # thr[t].x0[l]
      /\ thr[t].arg.x0 # Empty
      /\ thr[t].arg.lam_g0 = Empty
      /\ horizon_ >= 1

====
